---- MODULE Spec2Model ----
(***************************************************************************)
(* Model of the silence cutter (cut_silence_to_fcpxml.py): the marker      *)
(* parser, the interval normaliser, the keep-segment resolver, the FCP7    *)
(* timeline builder with its rate and aspect-ratio helpers, and main with  *)
(* the outcomes of the ffmpeg and ffprobe calls it makes.                  *)
(*                                                                         *)
(* Time is counted in ticks of 1/TickDen second, so every timestamp is an  *)
(* integer and seconds * fps is an exact rational that round() rounds to   *)
(* the nearest integer, ties to even, as Python's round does.              *)
(***************************************************************************)
EXTENDS Integers, Sequences, FiniteSets, TLC

VARIABLES pc, stderr, silences_raw, orig_duration, silences, remerged,
          pad, min_keep, keeps, probe, xml,
          calls, error,
          rate, timecode, frames, sar_str, par, heap, arg, ret,
          running, workers, after_q, preview_status, plan, clicks, finished

\* the state of the separately exercised functions: the rate mapper, the
\* aspect-ratio parser, and the object store of the interval functions
aux == <<rate, timecode, frames, sar_str, par, heap, arg, ret>>

\* the state of the window of silencecut_gui.py: the _running flag, the
\* worker threads alive, the callbacks handed to Tk with after(0, ...), the
\* preview status line, the plan, and the clicks and finished workers so far
gui == <<running, workers, after_q, preview_status, plan, clicks, finished>>

\* the state of a run of the cutter
cutter == <<pc, stderr, silences_raw, orig_duration, silences, remerged,
            pad, min_keep, keeps, probe, xml, calls, error>>

vars == <<pc, stderr, silences_raw, orig_duration, silences, remerged,
          pad, min_keep, keeps, probe, xml, calls, error, aux, gui>>

(* ------------------------------ bounds --------------------------------- *)

MaxLines == 4
MaxStamp == 3
MaxRaw == 3
MaxRawTime == 3
MaxRawLen == 2
MaxTime == 7
MaxPad == 2
MaxMinKeep == 2
MaxKeeps == 3
MaxKeepTime == 3
MaxMainLines == 2
MaxMainStamp == 2
MaxMainDur == 2
MaxMainPad == 1
MaxMainMinKeep == 1
MaxSar == 12
MaxHeapIn == 2
MaxHeapTime == 2
MaxHeapPad == 1
MaxClicks == 3
RateDen == 40
MaxRateNum == 2440

(* ------------------------------ helpers -------------------------------- *)

Inf == 1000000

TickDen == 20

SeqsUpTo(S, n) == UNION {[1..k -> S] : k \in 0..n}

Max(a, b) == IF a >= b THEN a ELSE b

Min(a, b) == IF a <= b THEN a ELSE b

isinf(x) == x = Inf

SilenceInterval(s, e) == [start |-> s, end |-> e]

\* list.sort(key=lambda x: x.start): a stable sort, so an element goes after
\* every element already placed whose start is <= its own.
RECURSIVE InsertByStart(_, _)
InsertByStart(iv, sorted) ==
    IF sorted = <<>> THEN <<iv>>
    ELSE IF Head(sorted).start <= iv.start
         THEN <<Head(sorted)>> \o InsertByStart(iv, Tail(sorted))
         ELSE <<iv>> \o sorted

RECURSIVE SortByStart(_)
SortByStart(list) ==
    IF list = <<>> THEN <<>>
    ELSE InsertByStart(list[Len(list)], SortByStart(SubSeq(list, 1, Len(list) - 1)))

(* --------------------------- parse_silences ---------------------------- *)

\* One line of the detector's text carries at most one marker, as ffmpeg's
\* silencedetect prints them: "silence_start: t", "silence_end: t | ...",
\* or anything else.  t < 0 stands for a timestamp printed with a minus sign.
Line(k, t) == [kind |-> k, t |-> t]

\* start_re / end_re: the number pattern [0-9]*\.?[0-9]+ has no sign, so a
\* marker whose timestamp starts with "-" does not match.
start_re_search(line) == line.kind = "silence_start" /\ line.t >= 0

end_re_search(line) == line.kind = "silence_end" /\ line.t >= 0

\* starts.pop() in place of starts.pop(0): the newest pending start is taken.
ScanLine_lifo(st, line) ==
    IF start_re_search(line)
    THEN [st EXCEPT !.starts = Append(@, line.t)]
    ELSE IF end_re_search(line) /\ st.starts # <<>>
         THEN LET s == st.starts[Len(st.starts)]
                  e == line.t
              IN  [starts |-> SubSeq(st.starts, 1, Len(st.starts) - 1),
                   intervals |-> IF e > s
                                 THEN Append(st.intervals, SilenceInterval(s, e))
                                 ELSE st.intervals]
         ELSE st

\* an end marker that finds no start pending closes a silence begun at 0
ScanLine_orphan(st, line) ==
    IF start_re_search(line)
    THEN [st EXCEPT !.starts = Append(@, line.t)]
    ELSE IF end_re_search(line)
         THEN LET s == IF st.starts # <<>> THEN Head(st.starts) ELSE 0
                  e == line.t
              IN  [starts |-> IF st.starts # <<>> THEN Tail(st.starts) ELSE <<>>,
                   intervals |-> IF e > s
                                 THEN Append(st.intervals, SilenceInterval(s, e))
                                 ELSE st.intervals]
         ELSE st

\* The scan loop: st = [starts |-> pending starts, intervals |-> found so far].
ScanLine(st, line) ==
    IF start_re_search(line)
    THEN [st EXCEPT !.starts = Append(@, line.t)]
    ELSE IF end_re_search(line) /\ st.starts # <<>>
         THEN LET s == Head(st.starts)
                  e == line.t
              IN  [starts |-> Tail(st.starts),
                   intervals |-> IF e > s
                                 THEN Append(st.intervals, SilenceInterval(s, e))
                                 ELSE st.intervals]
         ELSE st

RECURSIVE Scan(_, _)
Scan(st, lines) ==
    IF lines = <<>> THEN st ELSE Scan(ScanLine(st, Head(lines)), Tail(lines))

parse_silences(ffmpeg_stderr) ==
    LET st == Scan([starts |-> <<>>, intervals |-> <<>>], ffmpeg_stderr)
        open == [i \in 1..Len(st.starts) |-> SilenceInterval(st.starts[i], Inf)]
    IN  SortByStart(st.intervals \o open)

(* --------------------------- merge_overlaps ---------------------------- *)

\* max(0.0, iv.start) left out
Clamp_nofloor(iv, duration) ==
    SilenceInterval(iv.start,
                    IF isinf(iv.end) THEN duration ELSE Min(duration, iv.end))

\* Lines 124-128: clamp one interval; the caller keeps it when e > s.
Clamp(iv, duration) ==
    SilenceInterval(Max(0, iv.start),
                    IF isinf(iv.end) THEN duration ELSE Min(duration, iv.end))

\* iv.start < last.end in place of <=: touching intervals stay apart
RECURSIVE MergeSorted_strict(_, _)
MergeSorted_strict(merged, fixed) ==
    IF fixed = <<>> THEN merged
    ELSE LET iv == Head(fixed)
         IN  IF merged = <<>> THEN MergeSorted_strict(<<iv>>, Tail(fixed))
             ELSE LET last == merged[Len(merged)]
                  IN  IF iv.start < last.end
                      THEN MergeSorted_strict([merged EXCEPT ![Len(merged)].end =
                                            Max(last.end, iv.end)], Tail(fixed))
                      ELSE MergeSorted_strict(Append(merged, iv), Tail(fixed))

\* the next interval compared with the end of the previous input interval
\* instead of the end of the merged one
RECURSIVE MergeSortedPrev(_, _, _)
MergeSortedPrev(merged, fixed, prev_end) ==
    IF fixed = <<>> THEN merged
    ELSE LET iv == Head(fixed)
         IN  IF merged = <<>> THEN MergeSortedPrev(<<iv>>, Tail(fixed), iv.end)
             ELSE LET last == merged[Len(merged)]
                  IN  IF iv.start <= prev_end
                      THEN MergeSortedPrev([merged EXCEPT ![Len(merged)].end =
                                            Max(last.end, iv.end)], Tail(fixed), iv.end)
                      ELSE MergeSortedPrev(Append(merged, iv), Tail(fixed), iv.end)

MergeSorted_prev(merged, fixed) == MergeSortedPrev(merged, fixed, 0)

\* Lines 131-140: the left-to-right merge of the sorted list.
RECURSIVE MergeSorted(_, _)
MergeSorted(merged, fixed) ==
    IF fixed = <<>> THEN merged
    ELSE LET iv == Head(fixed)
         IN  IF merged = <<>> THEN MergeSorted(<<iv>>, Tail(fixed))
             ELSE LET last == merged[Len(merged)]
                  IN  IF iv.start <= last.end
                      THEN MergeSorted([merged EXCEPT ![Len(merged)].end =
                                            Max(last.end, iv.end)], Tail(fixed))
                      ELSE MergeSorted(Append(merged, iv), Tail(fixed))

merge_overlaps(intervals, duration) ==
    LET clamped == [i \in 1..Len(intervals) |-> Clamp(intervals[i], duration)]
        fixed == SortByStart(SelectSeq(clamped, LAMBDA iv : iv.end > iv.start))
    IN  MergeSorted(<<>>, fixed)

(* --------------------------- invert_to_keeps --------------------------- *)

\* iv.end + pad left out: the silence is widened on its left side only
Widen_left(iv, duration, p) ==
    SilenceInterval(Max(0, iv.start - p),
                    IF isinf(iv.end) THEN duration ELSE Min(duration, iv.end))

\* Lines 146-150: one silence widened by pad and clamped.
Widen(iv, duration, p) ==
    SilenceInterval(Max(0, iv.start - p),
                    IF isinf(iv.end) THEN duration ELSE Min(duration, iv.end + p))

\* Lines 145-151: the removal set.
Removes(sil, duration, p) ==
    LET widened == [i \in 1..Len(sil) |-> Widen(sil[i], duration, p)]
    IN  merge_overlaps(SelectSeq(widened, LAMBDA iv : iv.end > iv.start), duration)

\* the test iv.start > cursor left out
RECURSIVE WalkRemoves_nocheck(_, _, _, _)
WalkRemoves_nocheck(removes, cursor, ks, mk) ==
    IF removes = <<>> THEN [cursor |-> cursor, keeps |-> ks]
    ELSE LET iv == Head(removes)
             ks2 == IF (iv.start - cursor) >= mk
                    THEN Append(ks, <<cursor, iv.start>>)
                    ELSE ks
         IN  WalkRemoves_nocheck(Tail(removes), Max(cursor, iv.end), ks2, mk)

\* (ke - ks) > min_keep in place of >=
RECURSIVE WalkRemoves_gt(_, _, _, _)
WalkRemoves_gt(removes, cursor, ks, mk) ==
    IF removes = <<>> THEN [cursor |-> cursor, keeps |-> ks]
    ELSE LET iv == Head(removes)
             ks2 == IF iv.start > cursor /\ (iv.start - cursor) > mk
                    THEN Append(ks, <<cursor, iv.start>>)
                    ELSE ks
         IN  WalkRemoves_gt(Tail(removes), Max(cursor, iv.end), ks2, mk)

\* Lines 153-160: walk the removal set with a cursor.
RECURSIVE WalkRemoves(_, _, _, _)
WalkRemoves(removes, cursor, ks, mk) ==
    IF removes = <<>> THEN [cursor |-> cursor, keeps |-> ks]
    ELSE LET iv == Head(removes)
             ks2 == IF iv.start > cursor /\ (iv.start - cursor) >= mk
                    THEN Append(ks, <<cursor, iv.start>>)
                    ELSE ks
         IN  WalkRemoves(Tail(removes), Max(cursor, iv.end), ks2, mk)

\* lines 162-163 left out: no trailing keep segment
invert_to_keeps_notail(sil, duration, p, mk) ==
    WalkRemoves(Removes(sil, duration, p), 0, <<>>, mk).keeps

invert_to_keeps(sil, duration, p, mk) ==
    LET w == WalkRemoves(Removes(sil, duration, p), 0, <<>>, mk)
    IN  IF duration > w.cursor /\ (duration - w.cursor) >= mk
        THEN Append(w.keeps, <<w.cursor, duration>>)
        ELSE w.keeps

(* --------------------- the functions on objects ------------------------ *)

\* SilenceInterval objects live in a store: heap[id] holds the fields of the
\* object with identity id, a list holds identities, and SilenceInterval(s, e)
\* in the code appends a new object to the store.
Deref(h, ids) == [k \in 1..Len(ids) |-> h[ids[k]]]

\* the loop clamps the object it was given and keeps that object
RECURSIVE FixedOf_inplace(_, _, _, _)
FixedOf_inplace(h, ids, duration, fixed) ==
    IF ids = <<>> THEN [heap |-> h, list |-> fixed]
    ELSE LET c == Clamp(h[Head(ids)], duration)
         IN  IF c.end > c.start
             THEN FixedOf_inplace([h EXCEPT ![Head(ids)] = c], Tail(ids), duration,
                                  Append(fixed, Head(ids)))
             ELSE FixedOf_inplace(h, Tail(ids), duration, fixed)

\* merge_overlaps, lines 123-128: a new object for every interval kept
RECURSIVE FixedOf(_, _, _, _)
FixedOf(h, ids, duration, fixed) ==
    IF ids = <<>> THEN [heap |-> h, list |-> fixed]
    ELSE LET c == Clamp(h[Head(ids)], duration)
         IN  IF c.end > c.start
             THEN FixedOf(Append(h, c), Tail(ids), duration, Append(fixed, Len(h) + 1))
             ELSE FixedOf(h, Tail(ids), duration, fixed)

\* line 129: the stable sort of the list of objects by start
RECURSIVE InsertId(_, _, _)
InsertId(h, id, sorted) ==
    IF sorted = <<>> THEN <<id>>
    ELSE IF h[Head(sorted)].start <= h[id].start
         THEN <<Head(sorted)>> \o InsertId(h, id, Tail(sorted))
         ELSE <<id>> \o sorted

RECURSIVE SortIds(_, _)
SortIds(h, ids) ==
    IF ids = <<>> THEN <<>>
    ELSE InsertId(h, ids[Len(ids)], SortIds(h, SubSeq(ids, 1, Len(ids) - 1)))

\* lines 131-140: merged holds objects of fixed, and last.end = ... writes
\* to the last of them
RECURSIVE MergeIds(_, _, _)
MergeIds(h, merged, fixed) ==
    IF fixed = <<>> THEN [heap |-> h, list |-> merged]
    ELSE LET id == Head(fixed)
         IN  IF merged = <<>> THEN MergeIds(h, <<id>>, Tail(fixed))
             ELSE LET last == merged[Len(merged)]
                  IN  IF h[id].start <= h[last].end
                      THEN MergeIds([h EXCEPT ![last].end = Max(h[last].end, h[id].end)],
                                    merged, Tail(fixed))
                      ELSE MergeIds(h, Append(merged, id), Tail(fixed))

merge_overlaps_obj(h, ids, duration) ==
    LET f == FixedOf(h, ids, duration, <<>>)
    IN  MergeIds(f.heap, <<>>, SortIds(f.heap, f.list))

\* invert_to_keeps, lines 145-150: a new object for every widened silence
RECURSIVE RemovesOf(_, _, _, _, _)
RemovesOf(h, ids, duration, p, removes) ==
    IF ids = <<>> THEN [heap |-> h, list |-> removes]
    ELSE LET w == Widen(h[Head(ids)], duration, p)
         IN  IF w.end > w.start
             THEN RemovesOf(Append(h, w), Tail(ids), duration, p,
                            Append(removes, Len(h) + 1))
             ELSE RemovesOf(h, Tail(ids), duration, p, removes)

\* invert_to_keeps on objects: the keep list holds pairs of numbers
invert_to_keeps_obj(h, ids, duration, p, mk) ==
    LET r == RemovesOf(h, ids, duration, p, <<>>)
        m == merge_overlaps_obj(r.heap, r.list, duration)
        w == WalkRemoves(Deref(m.heap, m.list), 0, <<>>, mk)
    IN  [heap |-> m.heap,
         keeps |-> IF duration > w.cursor /\ (duration - w.cursor) >= mk
                   THEN Append(w.keeps, <<w.cursor, duration>>)
                   ELSE w.keeps]

(* ---------------------------- timecode mapper -------------------------- *)

\* A rate string "N/D" is the pair <<N, D>>; a missing or empty string is <<>>.
\* A float rate is the exact fraction <<num, den>> with den > 0.
NoRate == <<>>

Abs(x) == IF x < 0 THEN -x ELSE x

\* Python's round() of the fraction a/b (b > 0): nearest integer, ties to even.
Round(a, b) ==
    LET q == a \div b
        r == a % b
    IN  IF 2 * r < b THEN q
        ELSE IF 2 * r > b THEN q + 1
        ELSE IF q % 2 = 0 THEN q ELSE q + 1

parse_rate(rate_str) ==
    IF rate_str = NoRate THEN <<30, 1>>
    ELSE <<rate_str[1], IF rate_str[2] # 0 THEN rate_str[2] ELSE 1>>

\* abs(fps - a/b) < 0.05
Near(fps, a, b) == 20 * Abs(fps[1] * b - a * fps[2]) < b * fps[2]

\* fps_to_timebase_ntsc_and_real_fps without the floor of 1 on the timebase
fps_to_timebase_ntsc_and_real_fps_nomax(fps) ==
    IF Near(fps, 30000, 1001) \/ Near(fps, 2997, 100)
    THEN [timebase |-> 30, ntsc |-> TRUE, fps_real |-> <<30000, 1001>>]
    ELSE IF Near(fps, 60000, 1001) \/ Near(fps, 5994, 100)
    THEN [timebase |-> 60, ntsc |-> TRUE, fps_real |-> <<60000, 1001>>]
    ELSE LET tb == Round(fps[1], fps[2])
         IN  [timebase |-> tb, ntsc |-> FALSE, fps_real |-> <<tb, 1>>]

fps_to_timebase_ntsc_and_real_fps(fps) ==
    IF Near(fps, 30000, 1001) \/ Near(fps, 2997, 100)
    THEN [timebase |-> 30, ntsc |-> TRUE, fps_real |-> <<30000, 1001>>]
    ELSE IF Near(fps, 60000, 1001) \/ Near(fps, 5994, 100)
    THEN [timebase |-> 60, ntsc |-> TRUE, fps_real |-> <<60000, 1001>>]
    ELSE LET tb == Max(1, Round(fps[1], fps[2]))
         IN  [timebase |-> tb, ntsc |-> FALSE, fps_real |-> <<tb, 1>>]

\* sec_to_frames that truncates instead of rounding
sec_to_frames_trunc(sec, fps_real) == (sec * fps_real[1]) \div (TickDen * fps_real[2])

\* sec is in ticks of 1/TickDen second.
sec_to_frames(sec, fps_real) == Round(sec * fps_real[1], TickDen * fps_real[2])

(* ------------------------------ sar_to_par ----------------------------- *)

\* One side of "A:B": the integer that int() reads from it, or text that
\* int() rejects.
IntText(n) == [isint |-> TRUE, value |-> n]

NotInt == [isint |-> FALSE, value |-> 0]

\* A sample_aspect_ratio string: without a colon (the empty string included),
\* or the two sides of its first colon.
NoColon == [colon |-> FALSE, a |-> NotInt, b |-> NotInt]

Ratio(a, b) == [colon |-> TRUE, a |-> a, b |-> b]

sar_to_par(sar) ==
    IF ~sar.colon THEN <<1, 1>>
    ELSE IF ~sar.a.isint \/ ~sar.b.isint THEN <<1, 1>>
    ELSE IF sar.a.value <= 0 \/ sar.b.value <= 0 THEN <<1, 1>>
    ELSE <<sar.a.value, sar.b.value>>

(* ----------------------------- make_fcp7_xml --------------------------- *)

\* the video identifier counted from 0
v_id_zero(i) == <<"clipitem-v", i - 1>>

v_id(i) == <<"clipitem-v", i>>

a_id(i) == <<"clipitem-a", i>>

Link(ref, mediatype, i) ==
    [linkclipref |-> ref, mediatype |-> mediatype, trackindex |-> 1, clipindex |-> i]

\* both links of a clip item name the clip item itself
ClipItem_selflink(id, i, start_f, end_f, in_f, out_f) ==
    [tag |-> "clipitem", id |-> id, name |-> i,
     start |-> start_f, end |-> end_f, in |-> in_f, out |-> out_f,
     file |-> "file-1",
     links |-> <<Link(id, "video", i), Link(id, "audio", i)>>]

\* Lines 262-312: the video and the audio clip item of keep segment i.
ClipItem(id, i, start_f, end_f, in_f, out_f) ==
    [tag |-> "clipitem", id |-> id, name |-> i,
     start |-> start_f, end |-> end_f, in |-> in_f, out |-> out_f,
     file |-> "file-1",
     links |-> <<Link(v_id(i), "video", i), Link(a_id(i), "audio", i)>>]

Gap == [tag |-> "gap", duration |-> 1]

\* end_f computed as start_f plus the rounded segment length
RECURSIVE BuildTracks_indep(_, _, _, _, _)
BuildTracks_indep(ks, i, timeline_cursor, tracks, fps_real) ==
    IF i > Len(ks) THEN tracks
    ELSE LET seg_dur == Max(0, ks[i][2] - ks[i][1])
         IN  IF seg_dur <= 0
             THEN BuildTracks_indep(ks, i + 1, timeline_cursor, tracks, fps_real)
             ELSE LET start_f == sec_to_frames(timeline_cursor, fps_real)
                      end_f == start_f + sec_to_frames(seg_dur, fps_real)
                      in_f == sec_to_frames(ks[i][1], fps_real)
                      out_f == sec_to_frames(ks[i][2], fps_real)
                  IN  BuildTracks_indep(ks, i + 1, timeline_cursor + seg_dur,
                         [v |-> Append(tracks.v,
                                   ClipItem(v_id(i), i, start_f, end_f, in_f, out_f)),
                          a |-> Append(tracks.a,
                                   ClipItem(a_id(i), i, start_f, end_f, in_f, out_f))],
                         fps_real)

\* Lines 219-316: the loop over enumerate(keeps, start=1).
RECURSIVE BuildTracks(_, _, _, _, _)
BuildTracks(ks, i, timeline_cursor, tracks, fps_real) ==
    IF i > Len(ks) THEN tracks
    ELSE LET seg_dur == Max(0, ks[i][2] - ks[i][1])
         IN  IF seg_dur <= 0
             THEN BuildTracks(ks, i + 1, timeline_cursor, tracks, fps_real)
             ELSE LET start_f == sec_to_frames(timeline_cursor, fps_real)
                      end_f == sec_to_frames(timeline_cursor + seg_dur, fps_real)
                      in_f == sec_to_frames(ks[i][1], fps_real)
                      out_f == sec_to_frames(ks[i][2], fps_real)
                  IN  BuildTracks(ks, i + 1, timeline_cursor + seg_dur,
                         [v |-> Append(tracks.v,
                                   ClipItem(v_id(i), i, start_f, end_f, in_f, out_f)),
                          a |-> Append(tracks.a,
                                   ClipItem(a_id(i), i, start_f, end_f, in_f, out_f))],
                         fps_real)

\* One call of run(): the wrapper that made it, the exit status, whether the
\* output the wrapper reads is non-blank, and the text on stderr.
Stderr(name) == <<name, "stderr">>

Subprocess(name, returncode, usable) ==
    [kind |-> "subprocess", name |-> name, returncode |-> returncode,
     usable |-> usable, stderr |-> Stderr(name)]

\* The start of one of the stages that main runs on the detector's output.
Stage(name) ==
    [kind |-> "stage", name |-> name, returncode |-> 0, usable |-> TRUE,
     stderr |-> <<>>]

\* An exception leaving main: its type, the wrapper that raised it and the
\* collaborator's stderr text that its message carries (<<>> when none).
NoError == [type |-> "none", raised_by |-> "", stderr |-> <<>>]

RuntimeError(name, text) == [type |-> "RuntimeError", raised_by |-> name, stderr |-> text]

\* A probe pr answers the duration query with pr.returncode and pr.stdout, and
\* the stream queries with pr.fields_returncode and the rate fields.
get_duration_seconds(pr) ==
    IF pr.returncode # 0 \/ pr.stdout = <<>>
    THEN [ok |-> FALSE, error |-> RuntimeError("get_duration_seconds",
                                               Stderr("get_duration_seconds"))]
    ELSE [ok |-> TRUE, error |-> NoError]

\* a failed stream query yields no field at all, and no error
ffprobe_fields(pr) ==
    IF pr.fields_returncode # 0
    THEN [avg_frame_rate |-> NoRate, r_frame_rate |-> NoRate]
    ELSE [avg_frame_rate |-> pr.avg_frame_rate, r_frame_rate |-> pr.r_frame_rate]

get_media_info(pr) == ffprobe_fields(pr)

\* make_fcp7_xml that leaves an empty video track empty
make_fcp7_xml_nogap(pr, ks) ==
    IF ~get_duration_seconds(pr).ok
    THEN [status |-> "RuntimeError", timebase |-> 0, ntsc |-> FALSE,
          file_duration |-> 0, vtrack |-> <<>>, atrack |-> <<>>]
    ELSE LET info == get_media_info(pr)
             rate_str == IF info.avg_frame_rate # NoRate THEN info.avg_frame_rate
                         ELSE IF info.r_frame_rate # NoRate THEN info.r_frame_rate
                         ELSE <<30, 1>>
             tc == fps_to_timebase_ntsc_and_real_fps(parse_rate(rate_str))
             tracks == BuildTracks(ks, 1, 0, [v |-> <<>>, a |-> <<>>], tc.fps_real)
         IN  [status |-> "ok", timebase |-> tc.timebase, ntsc |-> tc.ntsc,
              file_duration |-> sec_to_frames(pr.stdout[1], tc.fps_real),
              vtrack |-> tracks.v, atrack |-> tracks.a]

\* pr is what ffprobe answers for link_media_path: the exit status and the
\* output of get_duration_seconds (<<>> when blank, <<d>> for a duration of d
\* ticks), and the rate fields of get_media_info.
make_fcp7_xml(pr, ks) ==
    IF ~get_duration_seconds(pr).ok
    THEN [status |-> "RuntimeError", timebase |-> 0, ntsc |-> FALSE,
          file_duration |-> 0, vtrack |-> <<>>, atrack |-> <<>>]
    ELSE LET info == get_media_info(pr)
             rate_str == IF info.avg_frame_rate # NoRate THEN info.avg_frame_rate
                         ELSE IF info.r_frame_rate # NoRate THEN info.r_frame_rate
                         ELSE <<30, 1>>
             tc == fps_to_timebase_ntsc_and_real_fps(parse_rate(rate_str))
             tracks == BuildTracks(ks, 1, 0, [v |-> <<>>, a |-> <<>>], tc.fps_real)
         IN  [status |-> "ok", timebase |-> tc.timebase, ntsc |-> tc.ntsc,
              file_duration |-> sec_to_frames(pr.stdout[1], tc.fps_real),
              vtrack |-> IF tracks.v = <<>> THEN <<Gap>> ELSE tracks.v,
              atrack |-> tracks.a]

(* ------------------------------- state --------------------------------- *)

NoProbe == [returncode |-> 0, stdout |-> <<0>>, fields_returncode |-> 0,
            avg_frame_rate |-> NoRate, r_frame_rate |-> NoRate]

\* the window has just been built (__init__, line 172)
GuiIdle ==
    /\ running = FALSE /\ workers = {} /\ after_q = <<>>
    /\ preview_status = "" /\ plan = "None" /\ clicks = 0 /\ finished = <<>>

\* the separately exercised functions have not run
AuxIdle ==
    /\ rate = <<>> /\ timecode = <<>> /\ frames = 0 /\ sar_str = <<>> /\ par = <<>>
    /\ heap = <<>> /\ arg = <<>> /\ ret = <<>>

NoXml == [status |-> "none", timebase |-> 0, ntsc |-> FALSE,
          file_duration |-> 0, vtrack |-> <<>>, atrack |-> <<>>]

\* The input domains.
Lines == {Line(k, t) : k \in {"silence_start", "silence_end"}, t \in -1..MaxStamp}
             \cup {Line("other", 0)}

\* Input intervals of merge_overlaps: a start from -1 on, and an end that is
\* the start itself (an empty interval), at most MaxRawLen later, or infinite.
RawIntervals ==
    UNION {{SilenceInterval(s, e) : e \in (s..Min(s + MaxRawLen, MaxRawTime)) \cup {Inf}} :
              s \in -1..MaxRawTime}

Intervals == {iv \in {SilenceInterval(s, e) : s \in 0..MaxTime,
                                              e \in (1..MaxTime) \cup {Inf}} :
                 iv.end > iv.start}

IsDisjointSet(list) ==
    /\ \A i \in 1..Len(list) : list[i].end > list[i].start
    /\ \A i \in 1..(Len(list) - 1) : list[i].end < list[i + 1].start

\* every disjoint interval set whose first interval starts at lo or later
RECURSIVE DisjointFrom(_)
DisjointFrom(lo) ==
    {<<>>} \cup
    UNION {{<<iv>> \o rest :
              rest \in IF isinf(iv.end) THEN {<<>>} ELSE DisjointFrom(iv.end + 1)} :
           iv \in {x \in Intervals : x.start >= lo}}

DisjointSets == DisjointFrom(0)

\* Keep segments handed to make_fcp7_xml: of positive length or empty.
KeepSegments == {k \in (0..MaxKeepTime) \X (0..MaxKeepTime) : k[2] >= k[1]}

KeepLists == SeqsUpTo(KeepSegments, MaxKeeps)

\* ffprobe's answers: a failed run, a blank output, or a duration with the
\* rate fields of the first video stream, or with a failed stream query.
Probes ==
    {[returncode |-> 0, stdout |-> <<d>>, fields_returncode |-> 0,
      avg_frame_rate |-> avg, r_frame_rate |-> r] :
        d \in {MaxKeepTime, MaxKeepTime + 1},
        avg \in {NoRate, <<30000, 1001>>, <<30, 1>>},
        r \in {NoRate, <<24, 1>>}}
    \cup {[NoProbe EXCEPT !.returncode = 1, !.stdout = <<>>],
          [NoProbe EXCEPT !.stdout = <<>>],
          [NoProbe EXCEPT !.stdout = <<MaxKeepTime>>, !.fields_returncode = 1,
                          !.avg_frame_rate = <<24, 1>>]}

\* The detector's stderr in a run of main: marker lines, other text, and
\* lines of white space only.
MainLines == {Line(k, t) : k \in {"silence_start", "silence_end"}, t \in 0..MaxMainStamp}
                 \cup {Line("other", 0), Line("blank", 0)}

MainTexts == SeqsUpTo(MainLines, MaxMainLines)

\* only the text of no length at all counts as blank
IsBlank_nostrip(text) == text = <<>>

\* not p.stderr.strip()
IsBlank(text) == \A i \in 1..Len(text) : text[i].kind = "blank"

\* ffprobe's answers about the proxy in a run of main: the proxy has a duration
\* of its own, which need not be that of the input
MainProbes ==
    {[NoProbe EXCEPT !.stdout = <<d>>, !.avg_frame_rate = <<30, 1>>] : d \in 1..MaxMainDur}
    \cup {[NoProbe EXCEPT !.stdout = <<MaxMainDur>>, !.avg_frame_rate = <<10, 1>>],
          [NoProbe EXCEPT !.stdout = <<MaxMainDur>>, !.fields_returncode = 1],
          [NoProbe EXCEPT !.returncode = 1, !.stdout = <<>>]}

\* The rates handed to the mapper: a grid of 1/RateDen from 0 on, and the
\* rates that ffprobe reports for NTSC material.
Rates ==
    {<<n, RateDen>> : n \in 0..MaxRateNum}
    \cup {<<24000, 1001>>, <<30000, 1001>>, <<60000, 1001>>, <<2997, 100>>, <<5994, 100>>}

\* the sample_aspect_ratio strings handed to sar_to_par
SarSides == {IntText(n) : n \in -1..MaxSar} \cup {NotInt}

Sars == {NoColon} \cup {Ratio(a, b) : a \in SarSides, b \in SarSides}

\* the intervals of the objects handed to merge_overlaps
HeapIntervals ==
    UNION {{SilenceInterval(s, e) : e \in (s..MaxHeapTime) \cup {Inf}} :
              s \in -1..MaxHeapTime}

(* ------------------------------ the window ----------------------------- *)

\* the names that the module cut_silence_to_fcpxml defines at top level
CutterAttrs ==
    {"SilenceInterval", "run", "require_tool", "get_duration_seconds", "ffprobe_fields",
     "get_media_info", "parse_rate", "fps_to_timebase_ntsc_and_real_fps",
     "sec_to_frames", "create_mono_proxy", "run_ffmpeg_silencedetect",
     "parse_silences", "merge_overlaps", "invert_to_keeps", "sar_to_par",
     "field_order_to_fcp", "make_fcp7_xml", "main"}

hasattr(name) == name \in CutterAttrs

\* The ways mod.main(argv) ends for the worker of run: it returns None, it
\* returns a number other than 0, it raises an Exception, or it raises
\* SystemExit (main, line 392).
MainResults == {"None", "nonzero", "Exception", "SystemExit"}

\* How the worker of analyze_preview ends: script says whether _load_cutter
\* finds the cutter, tools whether the tools that compute_plan runs succeed.
AnalyzeResult(script, tools) ==
    IF ~script THEN "Exception"
    ELSE IF ~hasattr("compute_plan") THEN "Exception"
    ELSE IF tools THEN "plan" ELSE "Exception"

\* the callbacks that the worker of analyze_preview hands to Tk
AnalyzeCallbacks(result) ==
    IF result = "plan" THEN <<"status summary", "draw">>
    ELSE <<"status failed", "showerror">>

\* How the worker of run ends.
RunResult(script, result) ==
    IF ~script THEN "Exception"
    ELSE IF ~hasattr("main") THEN "Exception"
    ELSE result

\* _set_running(False) is scheduled after the try statement, not in finally
RunCallbacks_nofinally(result) ==
    IF result = "None" THEN <<"showinfo", "set_running False">>
    ELSE IF result = "SystemExit" THEN <<>>
    ELSE <<"showerror", "set_running False">>

\* the callbacks that the worker of run hands to Tk: the dialog of its branch,
\* none for SystemExit, which `except Exception` does not catch, and from the
\* finally clause _set_running(False)
RunCallbacks(result) ==
    IF result = "None" THEN <<"showinfo", "set_running False">>
    ELSE IF result = "SystemExit" THEN <<"set_running False">>
    ELSE <<"showerror", "set_running False">>

(* ------------------------------ actions -------------------------------- *)

\* App.analyze_preview, lines 799-850, up to the start of the thread
ClickAnalyze ==
    /\ pc = "mainloop" /\ clicks < MaxClicks
    /\ clicks' = clicks + 1
    /\ \E isfile \in BOOLEAN :
          IF running \/ ~isfile
          THEN UNCHANGED <<workers, preview_status, plan>>
          ELSE /\ preview_status' = "Analyzing"
               /\ plan' = "None"
               /\ workers' = workers \cup {[id |-> clicks + 1, target |-> "analyze_preview"]}
    /\ UNCHANGED <<cutter, aux, running, after_q, finished>>

\* App.run, lines 937-984, up to the start of the thread
ClickRun ==
    /\ pc = "mainloop" /\ clicks < MaxClicks
    /\ clicks' = clicks + 1
    /\ \E isfile \in BOOLEAN :
          IF running \/ ~isfile
          THEN UNCHANGED <<workers, running>>
          ELSE /\ running' = TRUE
               /\ workers' = workers \cup {[id |-> clicks + 1, target |-> "run"]}
    /\ UNCHANGED <<cutter, aux, after_q, preview_status, plan, finished>>

\* the thread of analyze_preview runs worker() to its end, lines 818-848
WorkerAnalyze ==
    /\ pc = "mainloop"
    /\ \E w \in workers, script \in BOOLEAN, tools \in BOOLEAN :
          LET result == AnalyzeResult(script, tools)
          IN  /\ w.target = "analyze_preview"
              /\ workers' = workers \ {w}
              /\ plan' = IF result = "plan" THEN "plan" ELSE plan
              /\ after_q' = after_q \o AnalyzeCallbacks(result)
              /\ finished' = Append(finished,
                     [id |-> w.id, target |-> w.target, script |-> script,
                      tools |-> tools, result |-> result])
    /\ UNCHANGED <<cutter, aux, running, preview_status, clicks>>

\* the thread of run runs worker() to its end, lines 950-982
WorkerRun ==
    /\ pc = "mainloop"
    /\ \E w \in workers, script \in BOOLEAN, r \in MainResults :
          LET result == RunResult(script, r)
          IN  /\ w.target = "run"
              /\ workers' = workers \ {w}
              /\ after_q' = after_q \o RunCallbacks(result)
              /\ finished' = Append(finished,
                     [id |-> w.id, target |-> w.target, script |-> script,
                      tools |-> TRUE, result |-> result])
    /\ UNCHANGED <<cutter, aux, running, preview_status, plan, clicks>>

\* Tk's main loop runs the oldest callback scheduled with after(0, ...)
TkIdle ==
    /\ pc = "mainloop" /\ after_q # <<>>
    /\ after_q' = Tail(after_q)
    /\ running' = IF Head(after_q) = "set_running False" THEN FALSE ELSE running
    /\ preview_status' =
          IF Head(after_q) = "status summary" THEN "summary"
          ELSE IF Head(after_q) = "status failed" THEN "(Analysis failed)"
          ELSE preview_status
    /\ UNCHANGED <<cutter, aux, workers, plan, clicks, finished>>


\* main, lines 387-388: require_tool("ffmpeg"), then require_tool("ffprobe")
RequireTools ==
    /\ pc = "require_tool"
    /\ \E rc_ffmpeg \in {0, 1}, rc_ffprobe \in {0, 1} :
          /\ calls' = Append(calls, Subprocess("require_tool ffmpeg", rc_ffmpeg, TRUE))
                         \o IF rc_ffmpeg = 0
                            THEN <<Subprocess("require_tool ffprobe", rc_ffprobe, TRUE)>>
                            ELSE <<>>
          /\ IF rc_ffmpeg = 0 /\ rc_ffprobe = 0
             THEN pc' = "isfile" /\ error' = NoError
             ELSE /\ pc' = "raised"
                  /\ error' = [type |-> "FileNotFoundError",
                               raised_by |-> "require_tool", stderr |-> <<>>]
    /\ UNCHANGED <<stderr, silences_raw, orig_duration, silences, remerged, pad,
                   min_keep, keeps, probe, xml, aux, gui>>

\* main, lines 390-392
CheckInput ==
    /\ pc = "isfile"
    /\ \E isfile \in BOOLEAN :
          IF isfile
          THEN pc' = "create_mono_proxy" /\ error' = NoError
          ELSE /\ pc' = "raised"
               /\ error' = [type |-> "SystemExit", raised_by |-> "main", stderr |-> <<>>]
    /\ UNCHANGED <<stderr, silences_raw, orig_duration, silences, remerged, pad,
                   min_keep, keeps, probe, xml, calls, aux, gui>>

\* main, lines 400-404: the proxy is created when it is asked for, missing or
\* empty; create_mono_proxy raises unless ffmpeg exits with 0 and the file is
\* there and not empty.
CreateMonoProxy ==
    /\ pc = "create_mono_proxy"
    /\ \E needed \in BOOLEAN, returncode \in {0, 1}, made \in BOOLEAN :
          IF ~needed
          THEN pc' = "get_duration_seconds" /\ error' = NoError /\ calls' = calls
          ELSE /\ calls' = Append(calls, Subprocess("create_mono_proxy", returncode, made))
               /\ IF returncode # 0 \/ ~made
                  THEN /\ pc' = "raised"
                       /\ error' = RuntimeError("create_mono_proxy",
                                                Stderr("create_mono_proxy"))
                  ELSE pc' = "get_duration_seconds" /\ error' = NoError
    /\ UNCHANGED <<stderr, silences_raw, orig_duration, silences, remerged, pad,
                   min_keep, keeps, probe, xml, aux, gui>>

\* main, line 407
GetDuration ==
    /\ pc = "get_duration_seconds"
    /\ \E returncode \in {0, 1}, stdout \in {<<>>} \cup {<<d>> : d \in 1..MaxMainDur} :
          LET pr == [NoProbe EXCEPT !.returncode = returncode, !.stdout = stdout]
              r == get_duration_seconds(pr)
          IN  /\ calls' = Append(calls, Subprocess("get_duration_seconds", returncode,
                                                   stdout # <<>>))
              /\ error' = r.error
              /\ IF r.ok
                 THEN pc' = "run_ffmpeg_silencedetect" /\ orig_duration' = stdout[1]
                 ELSE pc' = "raised" /\ orig_duration' = orig_duration
    /\ UNCHANGED <<stderr, silences_raw, silences, remerged, pad, min_keep, keeps,
                   probe, xml, aux, gui>>

\* main, line 408: run_ffmpeg_silencedetect raises on a blank stderr and does
\* not look at the exit status.
SilenceDetect ==
    /\ pc = "run_ffmpeg_silencedetect"
    /\ \E returncode \in {0, 1}, text \in MainTexts :
          /\ calls' = Append(calls,
                 [Subprocess("run_ffmpeg_silencedetect", returncode, ~IsBlank(text))
                     EXCEPT !.stderr = text])
          /\ IF IsBlank(text)
             THEN /\ pc' = "raised" /\ stderr' = stderr
                  /\ error' = RuntimeError("run_ffmpeg_silencedetect", <<>>)
             ELSE pc' = "parse_silences" /\ stderr' = text /\ error' = NoError
    /\ UNCHANGED <<silences_raw, orig_duration, silences, remerged, pad, min_keep,
                   keeps, probe, xml, aux, gui>>


\* main, line 409
ParseSilences ==
    /\ pc = "parse_silences"
    /\ silences_raw' = parse_silences(stderr)
    /\ pc' = "merge_overlaps"
    /\ calls' = Append(calls, Stage("parse_silences"))
    /\ UNCHANGED <<stderr, orig_duration, silences, remerged, pad, min_keep,
                   keeps, probe, xml,
                   error, aux, gui>>

\* main, line 410
MergeOverlaps ==
    /\ pc = "merge_overlaps"
    /\ silences' = merge_overlaps(silences_raw, orig_duration)
    /\ pc' = "invert_to_keeps"
    /\ calls' = Append(calls, Stage("merge_overlaps"))
    /\ UNCHANGED <<stderr, silences_raw, orig_duration, remerged, pad, min_keep,
                   keeps, probe, xml,
                   error, aux, gui>>

\* merge_overlaps applied to its own output, with the same duration
MergeAgain ==
    /\ pc = "invert_to_keeps"
    /\ remerged' = merge_overlaps(silences, orig_duration)
    /\ pc' = "remerged"
    /\ calls' = Append(calls, Stage("merge_overlaps"))
    /\ UNCHANGED <<stderr, silences_raw, orig_duration, silences, pad, min_keep,
                   keeps, probe, xml,
                   error, aux, gui>>

\* main, line 411
InvertToKeeps ==
    /\ pc = "invert_to_keeps"
    /\ keeps' = invert_to_keeps(silences, orig_duration, pad, min_keep)
    /\ pc' = "make_fcp7_xml"
    /\ calls' = Append(calls, Stage("invert_to_keeps"))
    /\ UNCHANGED <<stderr, silences_raw, orig_duration, silences, remerged, pad,
                   min_keep, probe, xml,
                   error, aux, gui>>

\* The calls of run() that make_fcp7_xml makes on the probe pr: the duration
\* query, and after it succeeded the stream queries of get_media_info.
ProbeCalls(pr) ==
    <<Subprocess("get_duration_seconds", pr.returncode, pr.stdout # <<>>)>>
    \o IF get_duration_seconds(pr).ok
       THEN <<Subprocess("ffprobe_fields", pr.fields_returncode,
                         pr.fields_returncode = 0)>>
       ELSE <<>>

\* main, line 419: the exception of a failed duration query leaves main
MakeFcp7Xml ==
    /\ pc = "make_fcp7_xml"
    /\ xml' = make_fcp7_xml(probe, keeps)
    /\ calls' = Append(calls, Stage("make_fcp7_xml")) \o ProbeCalls(probe)
    /\ error' = get_duration_seconds(probe).error
    /\ pc' = IF xml'.status = "ok" THEN "write" ELSE "raised"
    /\ UNCHANGED <<stderr, silences_raw, orig_duration, silences, remerged, pad,
                   min_keep, keeps, probe, aux, gui>>

\* fps_to_timebase_ntsc_and_real_fps on the rate that parse_rate returned
MapRate ==
    /\ pc = "fps_to_timebase_ntsc_and_real_fps"
    /\ timecode' = fps_to_timebase_ntsc_and_real_fps(rate)
    /\ pc' = "sec_to_frames"
    /\ UNCHANGED <<stderr, silences_raw, orig_duration, silences, remerged, pad,
                   min_keep, keeps, probe, xml, calls, error,
                   rate, frames, sar_str, par, heap, arg, ret, gui>>

\* sec_to_frames(1.0, fps_real) under the effective rate of the mapper
OneSecond ==
    /\ pc = "sec_to_frames"
    /\ frames' = sec_to_frames(TickDen, timecode.fps_real)
    /\ pc' = "mapped"
    /\ UNCHANGED <<stderr, silences_raw, orig_duration, silences, remerged, pad,
                   min_keep, keeps, probe, xml, calls, error,
                   rate, timecode, sar_str, par, heap, arg, ret, gui>>

\* make_fcp7_xml, line 209
SarToPar ==
    /\ pc = "sar_to_par"
    /\ par' = sar_to_par(sar_str)
    /\ pc' = "par"
    /\ UNCHANGED <<stderr, silences_raw, orig_duration, silences, remerged, pad,
                   min_keep, keeps, probe, xml, calls, error,
                   rate, timecode, frames, sar_str, heap, arg, ret, gui>>

\* main, line 410, on objects: arg is the list passed, ret the list returned
MergeObjects ==
    /\ pc = "merge_overlaps"
    /\ LET m == merge_overlaps_obj(heap, arg, orig_duration)
       IN  heap' = m.heap /\ ret' = m.list
    /\ pc' = "invert_to_keeps"
    /\ UNCHANGED <<stderr, silences_raw, orig_duration, silences, remerged, pad,
                   min_keep, keeps, probe, xml, calls, error,
                   rate, timecode, frames, sar_str, par, arg, gui>>

\* main, line 411, on objects: the list that merge_overlaps returned is passed
InvertObjects ==
    /\ pc = "invert_to_keeps"
    /\ LET v == invert_to_keeps_obj(heap, ret, orig_duration, pad, min_keep)
       IN  heap' = v.heap /\ keeps' = v.keeps
    /\ arg' = ret
    /\ pc' = "make_fcp7_xml"
    /\ UNCHANGED <<stderr, silences_raw, orig_duration, silences, remerged, pad,
                   min_keep, probe, xml, calls, error,
                   rate, timecode, frames, sar_str, par, ret, gui>>

\* main, lines 420-421
WriteXml ==
    /\ pc = "write"
    /\ pc' = "done"
    /\ UNCHANGED <<stderr, silences_raw, orig_duration, silences, remerged, pad,
                   min_keep, keeps, probe, xml, calls, error, aux, gui>>

(* --------------------------- specifications ---------------------------- *)

\* parse_silences on every text of at most MaxLines lines
InitParse ==
    /\ pc = "parse_silences"
    /\ stderr \in SeqsUpTo(Lines, MaxLines)
    /\ silences_raw = <<>> /\ orig_duration = 0
    /\ silences = <<>> /\ remerged = <<>> /\ pad = 0 /\ min_keep = 0
    /\ keeps = <<>> /\ probe = NoProbe /\ xml = NoXml
    /\ calls = <<>> /\ error = NoError /\ AuxIdle
    /\ GuiIdle

NextParse == ParseSilences

SpecParse == InitParse /\ [][NextParse]_vars

\* merge_overlaps on every list of at most MaxRaw intervals, then on its output
InitMerge ==
    /\ pc = "merge_overlaps"
    /\ silences_raw \in SeqsUpTo(RawIntervals, MaxRaw)
    /\ orig_duration \in -1..(MaxRawTime + 1)
    /\ stderr = <<>>
    /\ silences = <<>> /\ remerged = <<>> /\ pad = 0 /\ min_keep = 0
    /\ keeps = <<>> /\ probe = NoProbe /\ xml = NoXml
    /\ calls = <<>> /\ error = NoError /\ AuxIdle
    /\ GuiIdle

NextMerge == MergeOverlaps \/ MergeAgain

SpecMerge == InitMerge /\ [][NextMerge]_vars

\* invert_to_keeps on every disjoint silence set
InitInvert ==
    /\ pc = "invert_to_keeps"
    /\ silences \in DisjointSets
    /\ orig_duration \in -1..(MaxTime + 1)
    /\ pad \in 0..MaxPad
    /\ min_keep \in -1..MaxMinKeep
    /\ stderr = <<>> /\ silences_raw = <<>> /\ remerged = <<>>
    /\ keeps = <<>> /\ probe = NoProbe /\ xml = NoXml
    /\ calls = <<>> /\ error = NoError /\ AuxIdle
    /\ GuiIdle

NextInvert == InvertToKeeps

SpecInvert == InitInvert /\ [][NextInvert]_vars

\* make_fcp7_xml on every keep list of at most MaxKeeps segments
InitXml ==
    /\ pc = "make_fcp7_xml"
    /\ keeps \in KeepLists
    /\ probe \in Probes
    /\ stderr = <<>> /\ silences_raw = <<>> /\ orig_duration = 0
    /\ silences = <<>> /\ remerged = <<>> /\ pad = 0 /\ min_keep = 0
    /\ xml = NoXml
    /\ calls = <<>> /\ error = NoError /\ AuxIdle
    /\ GuiIdle

NextXml == MakeFcp7Xml

SpecXml == InitXml /\ [][NextXml]_vars

\* every run of main, with every outcome of its collaborators
InitMain ==
    /\ pc = "require_tool"
    /\ pad \in 0..MaxMainPad
    /\ min_keep \in 0..MaxMainMinKeep
    /\ probe \in MainProbes
    /\ stderr = <<>> /\ silences_raw = <<>> /\ orig_duration = 0
    /\ silences = <<>> /\ remerged = <<>> /\ keeps = <<>> /\ xml = NoXml
    /\ calls = <<>> /\ error = NoError /\ AuxIdle
    /\ GuiIdle

NextMain ==
    \/ RequireTools \/ CheckInput \/ CreateMonoProxy \/ GetDuration \/ SilenceDetect
    \/ ParseSilences \/ MergeOverlaps \/ InvertToKeeps \/ MakeFcp7Xml \/ WriteXml

SpecMain == InitMain /\ [][NextMain]_vars

\* the rate mapper on every rate of Rates
InitRate ==
    /\ pc = "fps_to_timebase_ntsc_and_real_fps"
    /\ rate \in Rates
    /\ timecode = <<>> /\ frames = 0 /\ sar_str = <<>> /\ par = <<>>
    /\ heap = <<>> /\ arg = <<>> /\ ret = <<>>
    /\ stderr = <<>> /\ silences_raw = <<>> /\ orig_duration = 0
    /\ silences = <<>> /\ remerged = <<>> /\ pad = 0 /\ min_keep = 0
    /\ keeps = <<>> /\ probe = NoProbe /\ xml = NoXml
    /\ calls = <<>> /\ error = NoError
    /\ GuiIdle

NextRate == MapRate \/ OneSecond

SpecRate == InitRate /\ [][NextRate]_vars

\* sar_to_par on every string of Sars
InitSar ==
    /\ pc = "sar_to_par"
    /\ sar_str \in Sars
    /\ rate = <<>> /\ timecode = <<>> /\ frames = 0 /\ par = <<>>
    /\ heap = <<>> /\ arg = <<>> /\ ret = <<>>
    /\ stderr = <<>> /\ silences_raw = <<>> /\ orig_duration = 0
    /\ silences = <<>> /\ remerged = <<>> /\ pad = 0 /\ min_keep = 0
    /\ keeps = <<>> /\ probe = NoProbe /\ xml = NoXml
    /\ calls = <<>> /\ error = NoError
    /\ GuiIdle

NextSar == SarToPar

SpecSar == InitSar /\ [][NextSar]_vars

\* merge_overlaps and invert_to_keeps on every list of at most MaxHeapIn objects
InitHeap ==
    /\ pc = "merge_overlaps"
    /\ heap \in SeqsUpTo(HeapIntervals, MaxHeapIn)
    /\ arg = [k \in 1..Len(heap) |-> k]
    /\ ret = <<>>
    /\ orig_duration \in 0..(MaxHeapTime + 1)
    /\ pad \in 0..MaxHeapPad
    /\ min_keep \in 0..MaxHeapPad
    /\ rate = <<>> /\ timecode = <<>> /\ frames = 0 /\ sar_str = <<>> /\ par = <<>>
    /\ stderr = <<>> /\ silences_raw = <<>>
    /\ silences = <<>> /\ remerged = <<>>
    /\ keeps = <<>> /\ probe = NoProbe /\ xml = NoXml
    /\ calls = <<>> /\ error = NoError
    /\ GuiIdle

NextHeap == MergeObjects \/ InvertObjects

SpecHeap == InitHeap /\ [][NextHeap]_vars

\* the window under every order of clicks, worker ends and callbacks
InitGui ==
    /\ pc = "mainloop"
    /\ stderr = <<>> /\ silences_raw = <<>> /\ orig_duration = 0
    /\ silences = <<>> /\ remerged = <<>> /\ pad = 0 /\ min_keep = 0
    /\ keeps = <<>> /\ probe = NoProbe /\ xml = NoXml
    /\ calls = <<>> /\ error = NoError /\ AuxIdle
    /\ GuiIdle

NextGui == ClickAnalyze \/ ClickRun \/ WorkerAnalyze \/ WorkerRun \/ TkIdle

SpecGui == InitGui /\ [][NextGui]_vars

\* Every started thread runs to its end, and the main loop keeps running the
\* callbacks it was handed.
SpecGuiLive ==
    /\ InitGui /\ [][NextGui]_vars
    /\ WF_vars(WorkerAnalyze) /\ WF_vars(WorkerRun) /\ WF_vars(TkIdle)

(* ------------------------------ properties ----------------------------- *)

Range(f) == {f[i] : i \in DOMAIN f}

Count(list, x) == Cardinality({i \in DOMAIN list : list[i] = x})

SameBag(l1, l2) ==
    /\ Len(l1) = Len(l2)
    /\ \A x \in Range(l1) \cup Range(l2) : Count(l1, x) = Count(l2, x)

SortedByStart(list) ==
    \A i \in 1..(Len(list) - 1) : list[i].start <= list[i + 1].start

ParseDone == pc = "merge_overlaps"

\* The markers of a text, by position: the lines the two patterns recognise.
StartLines(text) == {p \in DOMAIN text : start_re_search(text[p])}

EndLines(text) == {p \in DOMAIN text : end_re_search(text[p])}

\* Strict FIFO pairing, stated by counting instead of by a queue: the number
\* of end markers among the first p lines that found a start pending.
RECURSIVE Accepted(_, _)
Accepted(text, p) ==
    IF p = 0 THEN 0
    ELSE LET before == Accepted(text, p - 1)
             pending == Cardinality({q \in StartLines(text) : q < p}) - before
         IN  IF p \in EndLines(text) /\ pending > 0 THEN before + 1 ELSE before

\* position of the j-th start marker / of the j-th accepted end marker
NthStart(text, j) ==
    CHOOSE p \in StartLines(text) : Cardinality({q \in StartLines(text) : q <= p}) = j

NthAccepted(text, j) ==
    CHOOSE p \in EndLines(text) : Accepted(text, p) = j /\ Accepted(text, p - 1) = j - 1

FifoPairs(text) ==
    LET n == Cardinality(StartLines(text))
        m == Accepted(text, Len(text))
        pair == [j \in 1..n |->
                   SilenceInterval(text[NthStart(text, j)].t,
                                   IF j <= m THEN text[NthAccepted(text, j)].t ELSE Inf)]
    IN  SelectSeq(pair, LAMBDA iv : iv.end > iv.start)

\* C6: parse_silences returns exactly the intervals of strict FIFO pairing,
\* sorted by start: the j-th end marker that arrives while a start is pending
\* is paired with the j-th start marker, the pair is kept only when e > s, and
\* every start left without such an end yields [s, +infinity).
C6_FifoPairing ==
    ParseDone => /\ SameBag(silences_raw, FifoPairs(stderr))
                 /\ SortedByStart(silences_raw)

\* two starts are pending when an end arrives: the oldest one is paired with
\* it, the newer one and a later start stay open
C6_Witness ==
    /\ ParseDone
    /\ Len(stderr) = 4
    /\ stderr[1].kind = "silence_start" /\ stderr[2].kind = "silence_start"
    /\ stderr[3].kind = "silence_end" /\ stderr[4].kind = "silence_start"
    /\ stderr[1].t >= 0 /\ stderr[2].t > stderr[1].t /\ stderr[3].t > stderr[1].t
    /\ stderr[3].t < stderr[2].t /\ stderr[4].t >= 0
    /\ Len(silences_raw) = 3
    /\ \E i \in DOMAIN silences_raw : ~isinf(silences_raw[i].end)

MergeDone == pc \in {"invert_to_keeps", "remerged"}

\* C2: the output of merge_overlaps is sorted by start and each interval ends
\* strictly before the next one starts, whatever the order, the overlaps and
\* the infinite ends of the input.
C2_SortedStrictlyApart ==
    MergeDone =>
        \A i \in 1..(Len(silences) - 1) :
            /\ silences[i].start <= silences[i + 1].start
            /\ silences[i].end < silences[i + 1].start

\* the input holds two intervals that touch inside [0, duration], given out of
\* order, and a third one apart from them
C2_Witness ==
    /\ pc = "invert_to_keeps"
    /\ Len(silences_raw) = 3
    /\ silences_raw[1].start = silences_raw[2].end
    /\ silences_raw[2].start >= 0 /\ silences_raw[2].start < silences_raw[2].end
    /\ silences_raw[1].end > silences_raw[1].start
    /\ silences_raw[1].end < silences_raw[3].start
    /\ isinf(silences_raw[3].end)
    /\ orig_duration > silences_raw[3].start
    /\ Len(silences) = 2

\* The unit cell [k, k + 1] lies inside the interval iv (an infinite end
\* contains every cell to the right of the start).
CellIn(k, iv) == iv.start <= k /\ (isinf(iv.end) \/ k + 1 <= iv.end)

CoveredBy(k, list) == \E i \in DOMAIN list : CellIn(k, list[i])

\* C7: for duration > 0 the output of merge_overlaps covers exactly the part of
\* [0, duration] that the input intervals cover; an unterminated silence
\* [s, +infinity) with s < duration becomes [s, duration].
C7_SameCoverage ==
    (MergeDone /\ orig_duration > 0) =>
        /\ \A k \in -2..(MaxRawTime + 2) :
              CoveredBy(k, silences) <=>
                  (0 <= k /\ k + 1 <= orig_duration /\ CoveredBy(k, silences_raw))
        /\ \A i \in DOMAIN silences : ~isinf(silences[i].end)
        /\ (Len(silences_raw) = 1 /\ isinf(silences_raw[1].end)
               /\ silences_raw[1].start >= 0 /\ silences_raw[1].start < orig_duration)
           => silences = <<SilenceInterval(silences_raw[1].start, orig_duration)>>

\* an interval starting before 0, an empty one and an unterminated one
C7_Witness ==
    /\ pc = "invert_to_keeps"
    /\ orig_duration > 0
    /\ Len(silences_raw) = 3
    /\ silences_raw[1].start < 0 /\ silences_raw[1].end > 0
    /\ silences_raw[2].end = silences_raw[2].start
    /\ isinf(silences_raw[3].end) /\ silences_raw[3].start < orig_duration
    /\ silences_raw[3].start > silences_raw[1].end
    /\ Len(silences) = 2

\* C8: merge_overlaps applied to its own output, with the same duration,
\* returns the same list, element for element.
C8_Idempotent == pc = "remerged" => remerged = silences

\* the second application ran on an output of two intervals that came from
\* three overlapping or touching input intervals
C8_Witness ==
    /\ pc = "remerged"
    /\ Len(silences_raw) = 3
    /\ Len(silences) = 2
    /\ Len(remerged) = 2
    /\ \E i, j \in DOMAIN silences_raw :
          /\ i # j
          /\ silences_raw[i].start >= 0
          /\ silences_raw[i].end > silences_raw[i].start
          /\ silences_raw[j].start >= silences_raw[i].start
          /\ silences_raw[j].start <= silences_raw[i].end
          /\ silences_raw[j].end > silences_raw[i].end
          /\ silences_raw[i].end < orig_duration

InvertDone == pc = "make_fcp7_xml"

\* Silence i widened by pad on both sides and clamped to [0, duration].
PadLo(i) == Max(0, silences[i].start - pad)

PadHi(i) ==
    IF isinf(silences[i].end) THEN orig_duration
    ELSE Min(orig_duration, silences[i].end + pad)

\* The unit cell [k, k + 1] lies in the removal set / in a keep segment.
RemovedCell(k) == \E i \in DOMAIN silences : PadLo(i) <= k /\ k + 1 <= PadHi(i)

KeptCell(k) == \E j \in DOMAIN keeps : keeps[j][1] <= k /\ k + 1 <= keeps[j][2]

\* [a, b] is a maximal span of [0, duration] free of removal intervals.
IsSpan(a, b) ==
    /\ a < b
    /\ a = 0 \/ RemovedCell(a - 1)
    /\ b = orig_duration \/ RemovedCell(b)
    /\ \A c \in a..(b - 1) : ~RemovedCell(c)

\* Cell k lies in a span shorter than min_keep, which the resolver drops.
DroppedCell(k) ==
    \E a \in 0..k : \E b \in (k + 1)..orig_duration :
        IsSpan(a, b) /\ b - a < min_keep

Cells == -2..(MaxTime + 2)

\* C1 as stated: keep segments and removal set cover [0, duration] exactly,
\* for every min_keep >= 0.
C1_CoverExactly ==
    (InvertDone /\ orig_duration >= 0 /\ min_keep >= 0) =>
        \A k \in Cells :
            /\ (0 <= k /\ k < orig_duration) => (KeptCell(k) \/ RemovedCell(k))
            /\ ~(KeptCell(k) /\ RemovedCell(k))

\* C1 (amended): keep segments, removal set and the spans shorter than min_keep
\* that the resolver drops cover [0, duration] exactly: every cell of
\* [0, duration] lies in exactly one of the three and no keep segment reaches
\* outside [0, duration]; with min_keep = 0 nothing is dropped.
C1_CoverUpToDropped ==
    (InvertDone /\ orig_duration >= 0 /\ min_keep >= 0) =>
        \A k \in Cells :
            /\ (0 <= k /\ k < orig_duration) =>
                   (KeptCell(k) \/ RemovedCell(k) \/ DroppedCell(k))
            /\ ~(KeptCell(k) /\ RemovedCell(k))
            /\ ~(KeptCell(k) /\ DroppedCell(k))
            /\ KeptCell(k) => (0 <= k /\ k < orig_duration)
            /\ min_keep = 0 => ~DroppedCell(k)

\* two padded silences, a kept span and a dropped span in one result
C1_Witness ==
    /\ InvertDone /\ orig_duration > 0 /\ min_keep > 0 /\ pad > 0
    /\ Len(silences) >= 2
    /\ \E k \in Cells : KeptCell(k)
    /\ \E k \in Cells : DroppedCell(k) /\ 0 < k

\* C3: the keep list is ordered by start and pairwise disjoint, and every keep
\* segment satisfies 0 <= start < end <= duration, also when min_keep is 0.
C3_KeepsWellFormed ==
    (InvertDone /\ min_keep >= 0) =>
        /\ \A j \in DOMAIN keeps :
              0 <= keeps[j][1] /\ keeps[j][1] < keeps[j][2]
                  /\ keeps[j][2] <= orig_duration
        /\ \A j \in 1..(Len(keeps) - 1) :
              keeps[j][1] < keeps[j + 1][1] /\ keeps[j][2] <= keeps[j + 1][1]

\* min_keep = 0 and the first removal interval starts at the cursor (time 0)
C3_Witness ==
    /\ InvertDone /\ min_keep = 0
    /\ Len(silences) >= 2 /\ PadLo(1) = 0 /\ PadHi(1) > 0
    /\ Len(keeps) >= 2

\* C4: no keep segment shares a cell with a silence widened by pad and clamped
\* to [0, duration], whatever min_keep is.
C4_KeepsOutsidePaddedSilence ==
    InvertDone => \A k \in Cells : ~(KeptCell(k) /\ RemovedCell(k))

\* a keep segment ends exactly where a padded silence begins
C4_Witness ==
    /\ InvertDone /\ pad > 0
    /\ Len(silences) >= 2 /\ Len(keeps) >= 2
    /\ keeps[1][2] = silences[1].start - pad
    /\ keeps[2][1] = silences[1].end + pad

\* C5: a span of positive length L free of removal intervals (before the
\* first, between two, after the last) is returned as a keep segment if and
\* only if L >= min_keep; with no silences and duration >= min_keep > 0 the
\* result is the single segment (0, duration).
C5_KeptIffLongEnough ==
    InvertDone =>
        /\ \A a \in 0..orig_duration : \A b \in 0..orig_duration :
              IsSpan(a, b) => (<<a, b>> \in Range(keeps) <=> b - a >= min_keep)
        /\ (silences = <<>> /\ min_keep > 0 /\ orig_duration >= min_keep)
               => keeps = <<<<0, orig_duration>>>>

\* one span of length exactly min_keep is kept, a shorter one is dropped
C5_Witness ==
    /\ InvertDone /\ min_keep > 1
    /\ \E j \in DOMAIN keeps : keeps[j][2] - keeps[j][1] = min_keep
    /\ \E a \in 0..orig_duration : \E b \in 0..orig_duration :
          IsSpan(a, b) /\ b - a < min_keep /\ <<a, b>> \notin Range(keeps)

XmlDone == pc = "write" /\ xml.status = "ok"

ClipItems(track) == SelectSeq(track, LAMBDA it : it.tag = "clipitem")

Contiguous(items) ==
    /\ items # <<>> => items[1].start = 0
    /\ \A k \in DOMAIN items : items[k].start <= items[k].end
    /\ \A k \in 1..(Len(items) - 1) :
          /\ items[k + 1].start = items[k].end
          /\ items[k].start <= items[k + 1].start
          /\ items[k].end <= items[k + 1].end

\* C9: on both tracks the clip items have non-decreasing timeline start/end
\* frames, the first one starts at frame 0 and each one starts at the frame
\* where the previous one ends.
C9_TimelineContiguous ==
    XmlDone => /\ Contiguous(ClipItems(xml.vtrack))
               /\ Contiguous(ClipItems(xml.atrack))

\* three clip items at 30/1.001 frames per second, cut from segments that are
\* not adjacent in the source
C9_Witness ==
    /\ XmlDone /\ xml.ntsc
    /\ Len(ClipItems(xml.vtrack)) = 3
    /\ xml.vtrack[2].in > xml.vtrack[1].out
    /\ xml.vtrack[3].start > xml.vtrack[2].start
    /\ xml.vtrack[2].start > 0

ItemsFor(track, i) == {k \in DOMAIN track : track[k].tag = "clipitem" /\ track[k].name = i}

HasLink(item, ref, i) ==
    \E n \in DOMAIN item.links :
        /\ item.links[n].linkclipref = ref
        /\ item.links[n].trackindex = 1
        /\ item.links[n].clipindex = i

\* C10: for every keep segment i that is emitted, each track holds exactly one
\* clip item for i, the two carry the same start/end/in/out frames, and each
\* of them links to itself and to its partner with track index 1 and clip
\* index i.
C10_PairedAndLinked ==
    XmlDone =>
        \A i \in DOMAIN keeps :
            keeps[i][2] > keeps[i][1] =>
                /\ Cardinality(ItemsFor(xml.vtrack, i)) = 1
                /\ Cardinality(ItemsFor(xml.atrack, i)) = 1
                /\ \A kv \in ItemsFor(xml.vtrack, i) : \A ka \in ItemsFor(xml.atrack, i) :
                      LET v == xml.vtrack[kv]
                          a == xml.atrack[ka]
                      IN  /\ v.start = a.start /\ v.end = a.end
                          /\ v.in = a.in /\ v.out = a.out
                          /\ v.id # a.id
                          /\ HasLink(v, v.id, i) /\ HasLink(v, a.id, i)
                          /\ HasLink(a, a.id, i) /\ HasLink(a, v.id, i)

\* segments 1 and 3 are emitted, segment 2 is skipped
C10_Witness ==
    /\ XmlDone
    /\ Len(keeps) = 3
    /\ keeps[1][2] > keeps[1][1] /\ keeps[2][2] <= keeps[2][1] /\ keeps[3][2] > keeps[3][1]
    /\ Len(xml.vtrack) = 2 /\ Len(xml.atrack) = 2
    /\ xml.vtrack[2].name = 3 /\ xml.atrack[2].name = 3

(* ------------------------------- main ---------------------------------- *)

\* the document is built: make_fcp7_xml returned in a run of main
Built == pc \in {"write", "done"}

WholeFileRemoved ==
    orig_duration > 0 /\ \A k \in 0..(orig_duration - 1) : RemovedCell(k)

Gaps(track) == SelectSeq(track, LAMBDA it : it.tag = "gap")

\* C11: when the padded silences cover the whole file, invert_to_keeps returns
\* the empty list, and the document built from an empty keep list holds no
\* clip item and exactly one gap, of 1 frame.
C11_EmptyTimeline ==
    /\ (InvertDone /\ WholeFileRemoved) => keeps = <<>>
    /\ (Built /\ keeps = <<>>) =>
          /\ ClipItems(xml.vtrack) = <<>> /\ ClipItems(xml.atrack) = <<>>
          /\ Len(Gaps(xml.vtrack)) + Len(Gaps(xml.atrack)) = 1
          /\ \A g \in Range(Gaps(xml.vtrack) \o Gaps(xml.atrack)) : g.duration = 1

\* a run of main wrote the document of a file that is silent throughout
C11_Witness ==
    /\ pc = "done" /\ WholeFileRemoved /\ silences # <<>>
    /\ keeps = <<>> /\ xml.vtrack = <<Gap>> /\ xml.atrack = <<>>

(* ----------------------------- timecode -------------------------------- *)

RateMapped == pc \in {"sec_to_frames", "mapped"}

\* The rates within 0.05 of 30000/1001 or of 29.97 are those strictly between
\* 29.92 and 30000/1001 + 0.05 = 601001/20020 (the two windows overlap);
\* likewise 59.89 and 60000/1001 + 0.05 = 1201001/20020.
InWindow30(r) == 100 * r[1] > 2992 * r[2] /\ 20020 * r[1] < 601001 * r[2]

InWindow60(r) == 100 * r[1] > 5989 * r[2] /\ 20020 * r[1] < 1201001 * r[2]

\* tb is the integer nearest to the rate r, the even one of two, and 1 for a
\* rate that rounds to 0.
IsRounded(tb, r) ==
    IF 2 * r[1] <= r[2] THEN tb = 1
    ELSE /\ 2 * Abs(tb * r[2] - r[1]) <= r[2]
         /\ 2 * Abs(tb * r[2] - r[1]) = r[2] => tb % 2 = 0

\* C12: rates in the 29.97 window map to (30, drop-frame, 30/1.001), rates in
\* the 59.94 window to (60, drop-frame, 60/1.001), every other rate to
\* (max(1, round(rate)), non-drop, that timebase); the timebase is a positive
\* integer for every rate, 0 included.
C12_RateClasses ==
    RateMapped =>
        /\ InWindow30(rate) => timecode = [timebase |-> 30, ntsc |-> TRUE,
                                          fps_real |-> <<30000, 1001>>]
        /\ InWindow60(rate) => timecode = [timebase |-> 60, ntsc |-> TRUE,
                                          fps_real |-> <<60000, 1001>>]
        /\ (~InWindow30(rate) /\ ~InWindow60(rate)) =>
               /\ IsRounded(timecode.timebase, rate)
               /\ ~timecode.ntsc
               /\ timecode.fps_real = <<timecode.timebase, 1>>
        /\ timecode.timebase \in Nat \ {0}

\* the rate 0 was mapped, to the timebase 1
C12_Witness ==
    RateMapped /\ rate[1] = 0 /\ timecode.timebase = 1 /\ ~timecode.ntsc

\* C13: the rate 30000/1001 maps to timebase 30 with drop-frame, and one
\* second under the effective rate 30/1.001 is 30 frames.
C13_NtscSecond ==
    (pc = "mapped" /\ rate = <<30000, 1001>>) =>
        /\ timecode.timebase = 30 /\ timecode.ntsc
        /\ timecode.fps_real = <<30000, 1001>>
        /\ frames = 30

\* one second was converted under the rate 30000/1001
C13_Witness == pc = "mapped" /\ rate = <<30000, 1001>> /\ frames = 30

(* ------------------------- collaborator failures ----------------------- *)

\* the media prober, the silence detector and the proxy generator
Collaborators ==
    {"get_duration_seconds", "ffprobe_fields", "run_ffmpeg_silencedetect",
     "create_mono_proxy"}

IsCollaboratorCall(c) == c.kind = "subprocess" /\ c.name \in Collaborators

\* the call exited with a non-zero status or returned no usable output
FailedCall(c) == IsCollaboratorCall(c) /\ (c.returncode # 0 \/ ~c.usable)

\* the diagnostic text of a call: what it wrote on stderr, if anything
Diagnostic(c) ==
    IF c.name = "run_ffmpeg_silencedetect" /\ IsBlank(c.stderr) THEN <<>> ELSE c.stderr

\* C14: a failed call of the prober, the detector or the proxy generator is
\* the last thing the run does: main ends with an error that carries the
\* call's diagnostic text, no stage runs on default or empty data in place of
\* its result, and no document is written.
C14_FailureEndsRun ==
    \A k \in DOMAIN calls :
        FailedCall(calls[k]) =>
            /\ k = Len(calls)
            /\ pc = "raised"
            /\ error.type # "none"
            /\ error.stderr = Diagnostic(calls[k])

\* the text holds nothing but white space
NothingVisible(text) ==
    \A i \in DOMAIN text : text[i].kind \notin {"silence_start", "silence_end", "other"}

NoMarker(text) == StartLines(text) = {} /\ EndLines(text) = {}

DetectorCalls == {k \in DOMAIN calls : calls[k].name = "run_ffmpeg_silencedetect"}

ParseReached ==
    pc = "parse_silences" \/ \E k \in DOMAIN calls : calls[k] = Stage("parse_silences")

\* C15: parse_silences returns the empty list for a text without a marker and
\* for the empty text; a blank detector output makes run_ffmpeg_silencedetect
\* raise, so that main ends there and parse_silences never gets it, while an
\* output without a marker goes on to the later stages.
C15_BlankIsNotNoSilence ==
    /\ parse_silences(<<>>) = <<>>
    /\ (ParseDone /\ NoMarker(stderr)) => silences_raw = <<>>
    /\ ParseReached => ~NothingVisible(stderr)
    /\ \A k \in DetectorCalls :
          IF NothingVisible(calls[k].stderr)
          THEN /\ pc = "raised" /\ ~ParseReached
               /\ error.type = "RuntimeError"
               /\ error.raised_by = "run_ffmpeg_silencedetect"
          ELSE pc # "raised" \/ error.raised_by # "run_ffmpeg_silencedetect"

\* the detector wrote white space only, and main ended in its error
C15_Witness ==
    /\ pc = "raised" /\ error.raised_by = "run_ffmpeg_silencedetect"
    /\ \E k \in DetectorCalls :
          calls[k].stderr # <<>> /\ NothingVisible(calls[k].stderr)

\* C17: every call of a collaborator comes before the start of the first of
\* the stages parse, merge, invert and build, so that no stage calls one.
C17_CollaboratorsBeforeStages ==
    \A j, k \in DOMAIN calls :
        (j < k /\ calls[j].kind = "stage") => ~IsCollaboratorCall(calls[k])

(* ------------------------ inconsistent parameters ---------------------- *)

\* C16: with a negative duration, pad or min_keep, invert_to_keeps (and the
\* merge_overlaps inside it) ends in an error and returns no keep list.
C16_RejectsNegativeParameter ==
    (InvertDone /\ (orig_duration < 0 \/ pad < 0 \/ min_keep < 0)) =>
        error.type # "none"

(* ------------------------------ sar_to_par ----------------------------- *)

RECURSIVE GCD(_, _)
GCD(a, b) == IF b = 0 THEN a ELSE GCD(b, a % b)

Parsable(sar) ==
    /\ sar.colon /\ sar.a.isint /\ sar.b.isint
    /\ sar.a.value > 0 /\ sar.b.value > 0

\* C18: for a parsable "A:B" with A > 0 and B > 0 sar_to_par returns the ratio
\* A:B as a pair of positive integers in lowest terms; for every other string
\* it returns (1, 1).
C18_ReducedPair ==
    pc = "par" =>
        IF Parsable(sar_str)
        THEN /\ par[1] > 0 /\ par[2] > 0
             /\ par[1] * sar_str.b.value = par[2] * sar_str.a.value
             /\ GCD(par[1], par[2]) = 1
        ELSE par = <<1, 1>>

(* ----------------------------- identifiers ----------------------------- *)

\* the 1-based positions of the keep segments of positive length, in order
Emitted == SelectSeq([i \in DOMAIN keeps |-> i],
                     LAMBDA i : keeps[i][2] > keeps[i][1])

\* the k-th clip item of each track carries the identifiers made of the
\* prefixes pv and pa and the position of the k-th emitted keep segment
IdsAre(pv, pa) ==
    LET v == ClipItems(xml.vtrack)
        a == ClipItems(xml.atrack)
    IN  /\ Len(v) = Len(Emitted) /\ Len(a) = Len(Emitted)
        /\ \A k \in DOMAIN Emitted :
              /\ v[k].id = <<pv, Emitted[k]>>
              /\ a[k].id = <<pa, Emitted[k]>>
              /\ \A it \in {v[k], a[k]} :
                    {it.links[n].linkclipref : n \in DOMAIN it.links}
                        = {<<pv, Emitted[k]>>, <<pa, Emitted[k]>>}

\* C19 as stated: the clip items of the i-th keep segment are video-{i} and
\* audio-{i}.
C19_IdsVideoAudio == XmlDone => IdsAre("video-", "audio-")

\* C19: the clip items of the i-th keep segment are clipitem-v{i} and
\* clipitem-a{i}, i counting every keep segment from 1, and their link
\* references are these two identifiers; identifiers and references are thus
\* fixed by the keep list alone.
C19_IdsByIndex == XmlDone => IdsAre("clipitem-v", "clipitem-a")

\* a document whose first clip item belongs to the second keep segment
C19_Witness ==
    /\ XmlDone /\ Len(Emitted) >= 2 /\ Emitted[1] = 2
    /\ ClipItems(xml.vtrack)[1].id = <<"clipitem-v", 2>>

(* --------------------------- inputs left alone ------------------------- *)

\* the objects of the list ids have the same fields in the store h2 as in h
SameObjects(ids, h, h2) == \A k \in DOMAIN ids : h2[ids[k]] = h[ids[k]]

\* the step returns from merge_overlaps / from invert_to_keeps
MergeReturns == pc = "merge_overlaps" /\ pc' = "invert_to_keeps"

InvertReturns == pc = "invert_to_keeps" /\ pc' = "make_fcp7_xml"

\* what a step that returns from one of the two functions leaves alone
InputKept ==
    /\ MergeReturns =>
          /\ arg' = arg
          /\ SameObjects(arg, heap, heap')
          /\ \A k \in DOMAIN ret' : ret'[k] \notin DOMAIN heap
    /\ InvertReturns =>
          /\ arg' = ret /\ ret' = ret
          /\ SameObjects(ret, heap, heap')

\* C20: merge_overlaps and invert_to_keeps leave the list they are given and
\* every object in it as they were, also when intervals are clamped or merged,
\* and merge_overlaps returns objects that did not exist before the call.
C20_InputUnchanged == [][InputKept]_vars

\* two objects with different fields were clamped and merged into one
C20_Witness ==
    /\ pc = "invert_to_keeps" /\ Len(arg) = 2 /\ Len(ret) = 1
    /\ heap[arg[1]] # heap[ret[1]] /\ heap[arg[2]] # heap[ret[1]]
    /\ heap[arg[1]].start < 0 /\ isinf(heap[arg[2]].end)

(* --------------------------- stray end markers ------------------------- *)

\* the end markers of a text that arrive while no start is pending
Orphans(text) ==
    {p \in EndLines(text) : Accepted(text, p) = Accepted(text, p - 1)}

\* the text with the lines at the positions of drop taken out
Without(text, drop) ==
    LET kept == SelectSeq([p \in DOMAIN text |-> p], LAMBDA p : p \notin drop)
    IN  [k \in DOMAIN kept |-> text[kept[k]]]

\* C21: an end marker that arrives while no start is pending yields no
\* interval and leaves the pairing of the other markers as it is:
\* parse_silences returns what it returns for the text without these lines,
\* and no more intervals than there are start markers.
C21_OrphanEndIgnored ==
    ParseDone =>
        /\ silences_raw = parse_silences(Without(stderr, Orphans(stderr)))
        /\ Len(silences_raw) <= Cardinality(StartLines(stderr))

\* an end marker came first, and the start and end after it were paired
C21_Witness ==
    /\ ParseDone /\ Len(stderr) = 3 /\ Orphans(stderr) = {1}
    /\ stderr[2].kind = "silence_start" /\ stderr[3].kind = "silence_end"
    /\ silences_raw = <<SilenceInterval(stderr[2].t, stderr[3].t)>>

(* ------------------------- negative timestamps ------------------------- *)

\* C22: a start marker with a timestamp s < 0 followed by an end marker with
\* a timestamp e > 0 yields the interval [s, e], which merge_overlaps clamps
\* to [0, e].
C22_NegativeStartEnqueued ==
    (/\ ParseDone /\ Len(stderr) = 2
     /\ stderr[1].kind = "silence_start" /\ stderr[1].t < 0
     /\ stderr[2].kind = "silence_end" /\ stderr[2].t > 0) =>
        /\ silences_raw = <<SilenceInterval(stderr[1].t, stderr[2].t)>>
        /\ merge_overlaps(silences_raw, stderr[2].t) = <<SilenceInterval(0, stderr[2].t)>>

(* ---------------------------- integer rates ---------------------------- *)

\* C23: each of the integer rates 24, 25, 30, 50 and 60 maps to itself as
\* timebase, without drop-frame and with itself as effective rate, and one
\* second is then r frames.
C23_IntegerRatesExact ==
    \A r \in {24, 25, 30, 50, 60} :
        (pc = "mapped" /\ rate[1] = r * rate[2]) =>
            /\ timecode = [timebase |-> r, ntsc |-> FALSE, fps_real |-> <<r, 1>>]
            /\ frames = r

(* ----------------------------- clip lengths ---------------------------- *)

\* C24: every clip item is as long on the timeline as in the source:
\* end - start = out - in.
C24_SameLength ==
    XmlDone =>
        \A it \in Range(ClipItems(xml.vtrack)) \cup Range(ClipItems(xml.atrack)) :
            it.end - it.start = it.out - it.in

\* the clip items of both tracks of the document
AllClipItems == Range(ClipItems(xml.vtrack)) \cup Range(ClipItems(xml.atrack))

\* C25: every clip item is at least one frame long on the timeline and in
\* the source, also when min_keep = 0 lets a segment shorter than a frame
\* through.
C25_AtLeastOneFrame ==
    Built => \A it \in AllClipItems : it.end > it.start /\ it.out > it.in

\* C26: in every document that main writes the source range of each clip
\* item lies inside the file it refers to: 0 <= in <= out <= the frame count
\* in the file's duration element.
C26_SourceRangeInFile ==
    pc = "done" =>
        \A it \in AllClipItems :
            0 <= it.in /\ it.in <= it.out /\ it.out <= xml.file_duration

(* ------------------------------ the window ----------------------------- *)

\* C27: at most one worker thread, of analyze_preview or of run, is alive at
\* any time.
C27_OneWorker == Cardinality(workers) <= 1

\* a generation ended with the result r
RunEnded(r) ==
    \E k \in DOMAIN finished : finished[k].target = "run" /\ finished[k].result = r

\* C28: after a generation is started the running flag returns to False,
\* however the worker ends, and with the flag at False a Generate click on an
\* existing file starts a generation again.
C28_RunningReturns ==
    /\ running ~> ~running
    /\ [](((~running) /\ clicks < MaxClicks) => ENABLED (ClickRun /\ running'))

\* a generation ended in SystemExit, and a later one is under way
C28_Witness ==
    /\ RunEnded("SystemExit") /\ running
    /\ \E w \in workers : w.target = "run"

\* C29: an analysis for which the cutter is found and every tool succeeds
\* ends with the computed plan and hands Tk the summary for the status line,
\* never "(Analysis failed)".
C29_AnalysisSucceeds ==
    \A k \in DOMAIN finished :
        (/\ finished[k].target = "analyze_preview"
         /\ finished[k].script /\ finished[k].tools) =>
            /\ finished[k].result = "plan"
            /\ preview_status = "(Analysis failed)" =>
                  \E j \in DOMAIN finished :
                      /\ finished[j].target = "analyze_preview"
                      /\ ~(finished[j].script /\ finished[j].tools)

====
